---------------------------- MODULE Spec2Model ----------------------------
(***************************************************************************)
(* The daily video pipeline of src/video_generator.py (AutoVideoCreator)   *)
(* and the uploader process of src/youtube_uploader.py, as processes that  *)
(* share one working directory: daily_content.png, output_video.mp4,       *)
(* video_info.txt, token.pickle and refresh_token.txt.                     *)
(*                                                                         *)
(* Text is a sequence of one-character strings, so that the sidecar        *)
(* writer and get_video_info are computed character by character.  The     *)
(* pictographs of the description template are written "@": they are       *)
(* neither whitespace, ':' nor ','.                                        *)
(***************************************************************************)
EXTENDS Integers, Sequences, FiniteSets, TLC

(* ------------------------------ bounds --------------------------------- *)

\* generator processes that may overlap
NumGenerators == 2
\* run_daily invocations in one behaviour
MaxRuns == 2
\* invocations of the uploader script in one behaviour
MaxUploads == 1

(* ------------------------- string literals ----------------------------- *)

\* src/video_generator.py:31-35
FallbackQuote1 ==
    <<"T","h","e"," ","o","n","l","y"," ","w","a","y"," ","t","o"," ","d","o"," ","g","r","e",
      "a","t"," ","w","o","r","k"," ","i","s"," ","t","o"," ","l","o","v","e"," ","w","h","a",
      "t"," ","y","o","u"," ","d","o","."," ","-"," ","S","t","e","v","e"," ","J","o","b","s">>
FallbackQuote2 ==
    <<"Y","o","u","r"," ","t","i","m","e"," ","i","s"," ","l","i","m","i","t","e","d",","," ",
      "s","o"," ","d","o","n","'","t"," ","w","a","s","t","e"," ","i","t"," ","l","i","v","i",
      "n","g"," ","s","o","m","e","o","n","e"," ","e","l","s","e","'","s"," ","l","i","f","e",
      "."," ","-"," ","S","t","e","v","e"," ","J","o","b","s">>
FallbackQuote3 ==
    <<"T","h","e"," ","f","u","t","u","r","e"," ","b","e","l","o","n","g","s"," ","t","o"," ",
      "t","h","o","s","e"," ","w","h","o"," ","b","e","l","i","e","v","e"," ","i","n"," ","t",
      "h","e"," ","b","e","a","u","t","y"," ","o","f"," ","t","h","e","i","r"," ","d","r","e",
      "a","m","s","."," ","-"," ","E","l","e","a","n","o","r"," ","R","o","o","s","e","v","e",
      "l","t">>
\* src/video_generator.py:27, :39 and the separator of :26
QuoteHashtags ==
    <<"#","m","o","t","i","v","a","t","i","o","n"," ","#","i","n","s","p","i","r","a","t","i",
      "o","n"," ","#","s","u","c","c","e","s","s">>
FallbackHashtags ==
    <<"#","d","a","i","l","y"," ","#","v","i","r","a","l"," ","#","s","h","o","r","t","s">>
AuthorSep ==
    <<"\n","\n","-"," ">>
\* src/video_generator.py:152-157
TitlePerspective ==
    <<"T","h","i","s"," ","W","i","l","l"," ","C","h","a","n","g","e"," ","Y","o","u","r"," ",
      "P","e","r","s","p","e","c","t","i","v","e">>
TitleDailyWisdom ==
    <<"D","a","i","l","y"," ","W","i","s","d","o","m"," ">>
TitleTruth ==
    <<"T","h","e"," ","T","r","u","t","h"," ","N","o","b","o","d","y"," ","T","e","l","l","s",
      " ","Y","o","u">>
TitleOneMinute ==
    <<"O","n","e"," ","M","i","n","u","t","e"," ","T","h","a","t"," ","C","o","u","l","d"," ",
      "C","h","a","n","g","e"," ","E","v","e","r","y","t","h","i","n","g">>
\* src/video_generator.py:165-180, the text around {content['text']}, {date_str}, {hashtags}
DescUploadFor ==
    <<"\n","\n","@"," ","D","a","i","l","y"," ","u","p","l","o","a","d"," ","f","o","r"," ">>
DescSchedule ==
    <<"\n","@"," ","N","e","w"," ","v","i","d","e","o"," ","e","v","e","r","y"," ","d","a","y",
      " ","a","t"," ","2"," ","P","M"," ","U","T","C","\n","\n">>
DescFooter ==
    <<"\n","\n","#","s","h","o","r","t","s"," ","#","v","i","r","a","l"," ","#","t","r","e","n",
      "d","i","n","g"," ","#","m","o","t","i","v","a","t","i","o","n"," ","#","i","n","s","p",
      "i","r","a","t","i","o","n"," ","#","s","u","c","c","e","s","s"," ","#","m","i","n","d",
      "s","e","t"," ","\n","#","d","a","i","l","y"," ","#","y","o","u","t","u","b","e"," ","#",
      "s","u","b","s","c","r","i","b","e"," ","#","l","i","k","e"," ","#","c","o","m","m","e",
      "n","t","\n","\n","@"," ","W","a","t","c","h"," ","o","u","r"," ","p","r","e","v","i","o",
      "u","s"," ","v","i","d","e","o","s","\n","@"," ","T","u","r","n"," ","o","n"," ","n","o",
      "t","i","f","i","c","a","t","i","o","n","s","\n","@"," ","L","i","k","e"," ","i","f"," ",
      "y","o","u"," ","e","n","j","o","y","e","d","\n","\n","T","h","i","s"," ","c","o","n","t",
      "e","n","t"," ","i","s"," ","a","u","t","o","m","a","t","i","c","a","l","l","y"," ","g",
      "e","n","e","r","a","t","e","d",".","\n">>
\* src/video_generator.py:142-145 and src/youtube_uploader.py:110, :217-220
KeyTitle ==
    <<"T","I","T","L","E">>
KeyDescription ==
    <<"D","E","S","C","R","I","P","T","I","O","N">>
KeyTags ==
    <<"T","A","G","S">>
KeyFile ==
    <<"F","I","L","E">>
KeySep ==
    <<":"," ">>
Comma ==
    <<",">>
Newline ==
    <<"\n">>
\* src/video_generator.py:137, :72 and src/youtube_uploader.py:218
TagShorts ==
    <<"s","h","o","r","t","s">>
TagViral ==
    <<"v","i","r","a","l">>
TagDaily ==
    <<"d","a","i","l","y">>
TagMotivation ==
    <<"m","o","t","i","v","a","t","i","o","n">>
OutputVideoPath ==
    <<"o","u","t","p","u","t","_","v","i","d","e","o",".","m","p","4">>
DefaultTitle ==
    <<"D","a","i","l","y"," ","V","i","d","e","o">>
\* datetime.now() as strftime('%B %d, %Y') and strftime('%m/%d/%Y') renders it, on two days
DateLongA ==
    <<"N","o","v","e","m","b","e","r"," ","0","4",","," ","2","0","2","6">>
DateShortA ==
    <<"1","1","/","0","4","/","2","0","2","6">>
DateLongB ==
    <<"N","o","v","e","m","b","e","r"," ","0","5",","," ","2","0","2","6">>
DateShortB ==
    <<"1","1","/","0","5","/","2","0","2","6">>
\* bodies the quote API can answer with ('content' and 'author' fields)
QuoteYoda ==
    <<"D","o"," ","o","r"," ","d","o"," ","n","o","t",".">>
AuthorYoda ==
    <<"Y","o","d","a">>
QuoteTwoLines ==
    <<"R","i","s","e"," ","u","p",".","\n","S","h","i","n","e"," ","o","n",".">>
QuoteColon ==
    <<"R","u","l","e"," ","o","n","e",":"," ","b","e","g","i","n",".">>
QuoteTitleLine ==
    <<"S","t","a","y"," ","c","a","l","m",".","\n","T","I","T","L","E",":"," ","F","r","e","e",
      " ","p","r","i","z","e","s">>
QuoteEmpty ==
    <<>>
AuthorAnon ==
    <<"A","n","o","n">>

(* --------------------- str operations of Python ------------------------ *)

\* characters str.strip() removes
Whitespace == {" ", "\n", "\t", "\r", "\f"}

MatchAt(s, pat, i) ==
    /\ i + Len(pat) - 1 <= Len(s)
    /\ \A k \in 1..Len(pat) : s[i + k - 1] = pat[k]

\* str.find, 1-based; 0 when pat does not occur
Find(s, pat) ==
    LET hits == {i \in 1..(Len(s) - Len(pat) + 1) : MatchAt(s, pat, i)}
    IN  IF hits = {} THEN 0 ELSE CHOOSE i \in hits : \A j \in hits : i <= j

\* pat in s
Contains(s, pat) == Find(s, pat) # 0

\* the first index from i upwards, the last from j downwards, that holds
\* no whitespace
RECURSIVE FirstInk(_, _)
FirstInk(s, i) ==
    IF i > Len(s) \/ s[i] \notin Whitespace THEN i ELSE FirstInk(s, i + 1)
RECURSIVE LastInk(_, _)
LastInk(s, j) ==
    IF j < 1 \/ s[j] \notin Whitespace THEN j ELSE LastInk(s, j - 1)

\* s.strip()
Strip(s) == SubSeq(s, FirstInk(s, 1), LastInk(s, Len(s)))

\* s.split(sep, 1)
SplitFirst(s, sep) ==
    LET i == Find(s, sep)
    IN  IF i = 0 THEN <<s>>
        ELSE <<SubSeq(s, 1, i - 1), SubSeq(s, i + Len(sep), Len(s))>>

\* s.split(sep)
RECURSIVE Split(_, _)
Split(s, sep) ==
    LET i == Find(s, sep)
    IN  IF i = 0 THEN <<s>>
        ELSE <<SubSeq(s, 1, i - 1)>> \o Split(SubSeq(s, i + Len(sep), Len(s)), sep)

\* sep.join(parts)
RECURSIVE Join(_, _)
Join(parts, sep) ==
    IF parts = <<>> THEN <<>>
    ELSE IF Len(parts) = 1 THEN parts[1]
    ELSE parts[1] \o sep \o Join(Tail(parts), sep)

\* the lines "for line in f" yields: each keeps its "\n", and the text
\* after the last "\n", if any, is the last line
FileLines(text) ==
    LET ends == {i \in 1..Len(text) : MatchAt(text, Newline, i) \/ i = Len(text)}
        end(k) == CHOOSE i \in ends : Cardinality({j \in ends : j <= i}) = k
        start(k) == IF k = 1 THEN 1 ELSE end(k - 1) + 1
    IN  [k \in 1..Cardinality(ends) |-> SubSeq(text, start(k), end(k))]

\* a dict with str keys: a function on the set of its keys
EmptyDict == [k \in {} |-> <<>>]
DictGet(d, key, default) == IF key \in DOMAIN d THEN d[key] ELSE default

(* ------------------- AutoVideoCreator, pure parts ---------------------- *)

FallbackQuotes == <<FallbackQuote1, FallbackQuote2, FallbackQuote3>>

\* the days datetime.now() can fall on, in order
Dates == << [long |-> DateLongA, short |-> DateShortA],
            [long |-> DateLongB, short |-> DateShortB] >>

\* What requests.get(...).json() can do: raise (no network, timeout), raise
\* on a body that is not JSON, or give an object that has or lacks the
\* 'content' and 'author' keys.
JsonResponse(hasContent, content, hasAuthor, author) ==
    [kind |-> "json", hasContent |-> hasContent, content |-> content,
     hasAuthor |-> hasAuthor, author |-> author]
FailedResponses ==
    { [kind |-> k, hasContent |-> FALSE, content |-> <<>>,
       hasAuthor |-> FALSE, author |-> <<>>] : k \in {"network_error", "not_json"} }
    \cup { JsonResponse(FALSE, <<>>, TRUE, AuthorYoda),
           JsonResponse(TRUE, QuoteYoda, FALSE, <<>>),
           JsonResponse(FALSE, <<>>, FALSE, <<>>) }
QuoteResponses ==
    { JsonResponse(TRUE, q, TRUE, a) :
        q \in {QuoteYoda, QuoteTwoLines, QuoteColon, QuoteTitleLine, QuoteEmpty},
        a \in {AuthorYoda, AuthorAnon} }
Responses == FailedResponses \cup QuoteResponses

FetchSucceeds(resp) == resp.kind = "json" /\ resp.hasContent /\ resp.hasAuthor

\* A variant of get_daily_content that reads the fields with a default
\* instead of indexing, so that a missing field raises nothing: the
\* property of C6 must tell it from the code.
get_daily_content_FieldsDefaulted(resp, pick) ==
    IF resp.kind = "json"
    THEN [type |-> "quote",
          text |-> resp.content \o AuthorSep \o resp.author,
          hashtags |-> QuoteHashtags]
    ELSE [type |-> "quote",
          text |-> FallbackQuotes[pick],
          hashtags |-> FallbackHashtags]

\* get_daily_content: resp is the outcome of the request, pick the index
\* random.choice draws in the except branch
get_daily_content(resp, pick) ==
    IF FetchSucceeds(resp)
    THEN [type |-> "quote",
          text |-> resp.content \o AuthorSep \o resp.author,
          hashtags |-> QuoteHashtags]
    ELSE [type |-> "quote",
          text |-> FallbackQuotes[pick],
          hashtags |-> FallbackHashtags]

\* generate_title: pick is the index random.choice draws, date is now()
TitleTemplates(date) ==
    <<TitlePerspective, TitleDailyWisdom \o date.short, TitleTruth, TitleOneMinute>>
generate_title(content, pick, date) == TitleTemplates(date)[pick]

generate_description(content, date) ==
    content.text \o DescUploadFor \o date.long \o DescSchedule
        \o content.hashtags \o DescFooter

Tags == <<TagShorts, TagViral, TagDaily, TagMotivation>>

\* the metadata dict of run_daily
Metadata(video_file, content, pick, titleDate, descDate) ==
    [video_file |-> video_file,
     title |-> generate_title(content, pick, titleDate),
     description |-> generate_description(content, descDate),
     tags |-> Tags]

\* the four f.write calls of run_daily, in order
SidecarText(metadata) ==
    KeyTitle \o KeySep \o metadata.title \o Newline
    \o KeyDescription \o KeySep \o metadata.description \o Newline
    \o KeyTags \o KeySep \o Join(metadata.tags, Comma) \o Newline
    \o KeyFile \o KeySep \o metadata.video_file \o Newline

(* ----------------------- get_video_info, pure -------------------------- *)

\* the loop over the lines read: a line holding ": " is stripped and split
\* once at ": " into key, value, and video_info[key] = value, so that a key
\* keeps the value of the last line that sets it; "ValueError" when the
\* unpacking of line.strip().split(": ", 1) does not get two parts
ParseLines(lines) ==
    LET keyed == {k \in 1..Len(lines) : Contains(lines[k], KeySep)}
        parts(k) == SplitFirst(Strip(lines[k]), KeySep)
        keys == {parts(k)[1] : k \in keyed}
        last(key) == CHOOSE k \in keyed :
                         /\ parts(k)[1] = key
                         /\ \A j \in keyed : parts(j)[1] = key => j <= k
    IN  IF \E k \in keyed : Len(parts(k)) # 2
        THEN [status |-> "ValueError", info |-> EmptyDict]
        ELSE [status |-> "ok", info |-> [key \in keys |-> parts(last(key))[2]]]

\* get_video_info on a file that exists
ParseSidecar(text) == ParseLines(FileLines(text))

\* get_video_info: None ("None") on FileNotFoundError
get_video_info(file) ==
    IF file.exists THEN ParseSidecar(file.text)
    ELSE [status |-> "None", info |-> EmptyDict]

\* the keyword arguments __main__ passes to upload_video
UploadArgs(info) ==
    [file_path |-> DictGet(info, KeyFile, OutputVideoPath),
     title |-> DictGet(info, KeyTitle, DefaultTitle),
     description |-> DictGet(info, KeyDescription, <<>>),
     tags |-> Split(DictGet(info, KeyTags, <<>>), Comma)]

(* ------------------------------ state ---------------------------------- *)

VARIABLES
    ffmpeg,        \* whether an ffmpeg binary is on the PATH
    clientId,      \* whether YOUTUBE_CLIENT_ID is set and non-empty
    clientSecret,  \* whether YOUTUBE_CLIENT_SECRET is set and non-empty
    fsImage,       \* daily_content.png: the run that saved it, 0 when absent
    fsVideo,       \* output_video.mp4
    fsSidecar,     \* video_info.txt
    fsToken,       \* token.pickle: the pickled credentials
    fsRefresh,     \* whether refresh_token.txt exists
    runs,          \* run_daily invocations started so far
    gen,           \* per generator process: position and locals of run_daily
    uploads,       \* uploader invocations started so far
    upc,           \* position of the uploader process
    video_info,    \* __main__: what get_video_info returned
    sidecarRead,   \* get_video_info: video_info.txt as it was when read
    creds,         \* get_credentials: creds
    tokenAtEntry,  \* token.pickle as get_credentials found it on entry
    response,      \* upload_video: the insert response's video id, "" before it
    result,        \* __main__: "unset", "None" or the response upload_video returned
    calls,         \* the network requests of this uploader invocation, in order
    printed,       \* the messages this uploader invocation printed
    exitStatus     \* exit status of the uploader process, -1 while it runs

envVars == <<ffmpeg, clientId, clientSecret>>
genFiles == <<fsImage, fsVideo, fsSidecar>>
authFiles == <<fsToken, fsRefresh>>
genVars == <<runs, gen>>
uplVars == <<uploads, upc, video_info, sidecarRead, creds, tokenAtEntry, response,
             result, calls, printed, exitStatus>>
vars == <<envVars, genFiles, authFiles, genVars, uplVars>>

Generators == 1..NumGenerators

\* output_video.mp4: absent, the fade clip of the primary command, the blue
\* clip of the fallback command, or what a failed ffmpeg left behind after
\* opening its output.  run is the run_daily invocation that wrote the
\* bytes and image the run whose daily_content.png was encoded.
NoVideo == [kind |-> "none", run |-> 0, image |-> 0]
VideoBy(kind, run, image) == [kind |-> kind, run |-> run, image |-> image]

\* video_info.txt; run is the run_daily invocation that wrote last
NoSidecar == [exists |-> FALSE, text |-> <<>>, run |-> 0]

\* google.oauth2.credentials.Credentials, by what get_credentials reads of
\* it; none is Python's None (for token.pickle: no such file)
None == [none |-> TRUE, token |-> FALSE, expired |-> FALSE, refresh_token |-> FALSE]
Credentials(token, expired, refresh_token) ==
    [none |-> FALSE, token |-> token, expired |-> expired,
     refresh_token |-> refresh_token]
AllCredentials ==
    {Credentials(t, e, r) : t \in BOOLEAN, e \in BOOLEAN, r \in BOOLEAN}
\* Credentials.valid
Valid(c) == ~c.none /\ c.token /\ ~c.expired
\* what creds.refresh(Request()) leaves in creds when it succeeds
Refreshed(c) == Credentials(TRUE, FALSE, c.refresh_token)

NoResponse ==
    [kind |-> "none", hasContent |-> FALSE, content |-> <<>>,
     hasAuthor |-> FALSE, author |-> <<>>]
NoContent == [type |-> "none", text |-> <<>>, hashtags |-> <<>>]
NoMetadata == [video_file |-> <<>>, title |-> <<>>, description |-> <<>>, tags |-> <<>>]
IdleGen ==
    [pc |-> "idle", run |-> 0, quote_data |-> NoResponse, content |-> NoContent,
     primary |-> "none", fallback |-> "none", metadata |-> NoMetadata]

NoInfo == [status |-> "unset", info |-> EmptyDict]

\* The working directory and environment a behaviour starts in: which
\* tokens token.pickle may hold, and whether run_daily has already run to
\* completion once (in process 1, on content from one of the responses,
\* its video encoded or both ffmpeg commands failed before writing).
FreshDirectory ==
    /\ fsImage = 0
    /\ fsVideo = NoVideo
    /\ fsSidecar = NoSidecar
    /\ runs = 0
    /\ gen = [p \in Generators |-> IdleGen]

AfterOneRun(responses, picks) ==
    \E resp \in responses, quote \in 1..Len(FallbackQuotes), pick \in picks,
       encoded \in BOOLEAN :
        LET content == get_daily_content(resp, quote)
            metadata == Metadata(OutputVideoPath, content, pick, Dates[1], Dates[1])
        IN  /\ fsImage = 1
            /\ fsVideo = IF encoded THEN VideoBy("primary", 1, 1) ELSE NoVideo
            /\ fsSidecar = [exists |-> TRUE, text |-> SidecarText(metadata), run |-> 1]
            /\ runs = 1
            /\ gen = [p \in Generators |->
                        IF p = 1
                        THEN [pc |-> "done", run |-> 1, quote_data |-> resp,
                              content |-> content,
                              primary |-> IF encoded THEN "ok" ELSE "nonzero",
                              fallback |-> IF encoded THEN "none" ELSE "nonzero",
                              metadata |-> metadata]
                        ELSE IdleGen]

UploaderIdle ==
    /\ fsRefresh = FALSE
    /\ uploads = 0
    /\ upc = "idle"
    /\ video_info = NoInfo
    /\ sidecarRead = NoSidecar
    /\ creds = None
    /\ tokenAtEntry = None
    /\ response = ""
    /\ result = "unset"
    /\ calls = <<>>
    /\ printed = {}
    /\ exitStatus = -1

\* the tokens the pipeline is started with: none yet, one to refresh, a
\* valid one
PipelineTokens == {None, Credentials(TRUE, TRUE, TRUE), Credentials(TRUE, FALSE, TRUE)}

Init ==
    /\ ffmpeg \in BOOLEAN
    /\ clientId = TRUE
    /\ clientSecret = TRUE
    /\ fsToken \in PipelineTokens
    /\ FreshDirectory
    /\ UploaderIdle

(* --------------------- run_daily, step by step ------------------------- *)

GenFrame == UNCHANGED <<envVars, authFiles, uplVars>>

\* python video_generator.py is started: __main__ calls run_daily
StartRun(p) ==
    /\ gen[p].pc \in {"idle", "done", "crashed"}
    /\ runs < MaxRuns
    /\ runs' = runs + 1
    /\ gen' = [gen EXCEPT ![p] = [IdleGen EXCEPT !.pc = "fetch", !.run = runs + 1]]
    /\ UNCHANGED genFiles
    /\ GenFrame

\* content = self.get_daily_content()
FetchContent(p, responses) ==
    /\ gen[p].pc = "fetch"
    /\ \E resp \in responses, pick \in 1..Len(FallbackQuotes) :
         gen' = [gen EXCEPT ![p].quote_data = resp,
                            ![p].content = get_daily_content(resp, pick),
                            ![p].pc = "render"]
    /\ UNCHANGED <<runs, genFiles>>
    /\ GenFrame

\* video_creator = random.choice(self.templates): all three are
\* create_motivational_short, up to img.save("daily_content.png")
RenderFrame(p) ==
    /\ gen[p].pc = "render"
    /\ fsImage' = gen[p].run
    /\ gen' = [gen EXCEPT ![p].pc = "encode"]
    /\ UNCHANGED <<runs, fsVideo, fsSidecar>>
    /\ GenFrame

\* What a run of ffmpeg that exits non-zero leaves at output_path: the file
\* as it was (it failed before opening its output) or a file it began.
AfterFailedFfmpeg(p) == {fsVideo, VideoBy("partial", gen[p].run, fsImage)}

\* create_video_from_image: subprocess.run(cmd, capture_output=True, check=True)
\* and its except subprocess.CalledProcessError
EncodePrimary(p) ==
    /\ gen[p].pc = "encode"
    /\ \/ /\ ~ffmpeg                      \* FileNotFoundError: not caught
          /\ gen' = [gen EXCEPT ![p].primary = "absent", ![p].pc = "crashed"]
          /\ UNCHANGED fsVideo
       \/ /\ ffmpeg                       \* exit status 0
          /\ fsVideo' = VideoBy("primary", gen[p].run, fsImage)
          /\ gen' = [gen EXCEPT ![p].primary = "ok", ![p].pc = "metadata"]
       \/ /\ ffmpeg                       \* CalledProcessError
          /\ fsVideo' \in AfterFailedFfmpeg(p)
          /\ gen' = [gen EXCEPT ![p].primary = "nonzero", ![p].pc = "fallback"]
    /\ UNCHANGED <<runs, fsImage, fsSidecar>>
    /\ GenFrame

\* create_fallback_video: subprocess.run(cmd, capture_output=True), the exit
\* status not looked at
EncodeFallback(p) ==
    /\ gen[p].pc = "fallback"
    /\ \/ /\ fsVideo' = VideoBy("fallback", gen[p].run, 0)
          /\ gen' = [gen EXCEPT ![p].fallback = "ok", ![p].pc = "metadata"]
       \/ /\ fsVideo' \in AfterFailedFfmpeg(p)
          /\ gen' = [gen EXCEPT ![p].fallback = "nonzero", ![p].pc = "metadata"]
    /\ UNCHANGED <<runs, fsImage, fsSidecar>>
    /\ GenFrame

\* run_daily from "return output_video.mp4" of the template to
\* open("video_info.txt", "w"), which truncates the file
\* (picks: the templates random.choice draws the title from; days: the
\* days the two datetime.now() calls can fall on, the second not before
\* the first)
OpenSidecar(p, picks, days) ==
    /\ gen[p].pc = "metadata"
    /\ \E pick \in picks, titleDay \in days, descDay \in days :
         /\ titleDay <= descDay
         /\ gen' = [gen EXCEPT
                      ![p].metadata = Metadata(OutputVideoPath, gen[p].content, pick,
                                               Dates[titleDay], Dates[descDay]),
                      ![p].pc = "write"]
    /\ fsSidecar' = [exists |-> TRUE, text |-> <<>>, run |-> gen[p].run]
    /\ UNCHANGED <<runs, fsImage, fsVideo>>
    /\ GenFrame

\* What the file holds once data is written at offset 0 of it
WriteAtStart(old, data) == data \o SubSeq(old, Len(data) + 1, Len(old))

\* the end of the with block: the buffered f.write calls reach the file;
\* run_daily returns metadata
CloseSidecar(p) ==
    /\ gen[p].pc = "write"
    /\ fsSidecar' = [exists |-> TRUE,
                     text |-> WriteAtStart(fsSidecar.text, SidecarText(gen[p].metadata)),
                     run |-> gen[p].run]
    /\ gen' = [gen EXCEPT ![p].pc = "done"]
    /\ UNCHANGED <<runs, fsImage, fsVideo>>
    /\ GenFrame

(* ------------------ youtube_uploader.py, step by step ------------------ *)

UplFrame == UNCHANGED <<envVars, genFiles, genVars>>

\* exit(status), or the interpreter ending: 0 at the end of the script, 1 on
\* an exception nobody caught
Exit(status, messages) ==
    /\ upc' = "exited"
    /\ exitStatus' = status
    /\ printed' = printed \cup messages

Uncaught(exception) == Exit(1, {exception})

Call(request) == calls' = Append(calls, request)

NoBody ==
    [file_path |-> <<>>, title |-> <<>>, description |-> <<>>, tags |-> <<>>]
Request(api, ok) ==
    [api |-> api, ok |-> ok, id |-> "", privacyStatus |-> "",
     selfDeclaredMadeForKids |-> FALSE, snippet |-> NoBody,
     media |-> NoVideo, sidecar |-> 0]

\* python youtube_uploader.py is started
StartUploader ==
    /\ upc \in {"idle", "exited"}
    /\ uploads < MaxUploads
    /\ uploads' = uploads + 1
    /\ upc' = "main"
    /\ video_info' = NoInfo
    /\ sidecarRead' = NoSidecar
    /\ creds' = None
    /\ tokenAtEntry' = None
    /\ response' = ""
    /\ result' = "unset"
    /\ calls' = <<>>
    /\ printed' = {}
    /\ exitStatus' = -1
    /\ UNCHANGED authFiles
    /\ UplFrame

\* A variant of CheckToken without the check of the client id and secret:
\* the property of C8 must tell it from the code.
CheckToken_NoEnvironmentCheck ==
    /\ upc = "main"
    /\ upc' = IF fsToken.none THEN "auth" ELSE "info"
    /\ UNCHANGED <<uploads, video_info, sidecarRead, creds, tokenAtEntry, response,
                   result, calls, printed, exitStatus, authFiles>>
    /\ UplFrame

\* __main__: if not os.path.exists("token.pickle") and the check of the
\* client id and secret under it
CheckToken ==
    /\ upc = "main"
    /\ IF ~fsToken.none THEN upc' = "info" /\ UNCHANGED <<printed, exitStatus>>
       ELSE IF ~clientId \/ ~clientSecret
            THEN Exit(1, {"Missing YOUTUBE_CLIENT_ID or YOUTUBE_CLIENT_SECRET"})
            ELSE upc' = "auth" /\ UNCHANGED <<printed, exitStatus>>
    /\ UNCHANGED <<uploads, video_info, sidecarRead, creds, tokenAtEntry, response,
                   result, calls, authFiles>>
    /\ UplFrame

\* manual_auth_first_time: input() gives a line (an empty one too) or
\* raises EOFError when stdin is closed; "if auth_code and ..." ends the
\* run on an empty code without calling exchange_code_for_token
ManualAuth ==
    /\ upc = "auth"
    /\ \E typed \in {"code", "", "EOF"} :
         CASE typed = "EOF" -> Uncaught("EOFError")
           [] typed = ""    -> Exit(1, {"Authentication failed"})
           [] OTHER         -> upc' = "exchange" /\ UNCHANGED <<printed, exitStatus>>
    /\ UNCHANGED <<uploads, video_info, sidecarRead, creds, tokenAtEntry, response,
                   result, calls, authFiles>>
    /\ UplFrame

\* exchange_code_for_token and the branch of __main__ on what it returns
ExchangeCode ==
    /\ upc = "exchange"
    /\ \E answer \in {"ConnectionError", "status_400", "no_refresh_token",
                      "tokens", "no_access_token"} :
         /\ Call(Request("token_exchange", answer \in {"tokens", "no_access_token"}))
         /\ CASE answer = "ConnectionError" ->
                   /\ Uncaught("ConnectionError")
                   /\ UNCHANGED authFiles
              [] answer \in {"status_400", "no_refresh_token"} ->
                   /\ Exit(1, {"Authentication failed"})
                   /\ UNCHANGED authFiles
              [] OTHER ->
                   /\ fsRefresh' = TRUE
                   /\ fsToken' = Credentials(answer = "tokens", FALSE, TRUE)
                   /\ upc' = "info"
                   /\ UNCHANGED <<printed, exitStatus>>
    /\ UNCHANGED <<uploads, video_info, sidecarRead, creds, tokenAtEntry, response,
                   result>>
    /\ UplFrame

\* get_video_info and "if not video_info: exit(1)"
GetVideoInfo ==
    /\ upc = "info"
    /\ sidecarRead' = fsSidecar
    /\ video_info' = get_video_info(fsSidecar)
    /\ CASE video_info'.status = "None" -> Exit(1, {"video_info.txt not found"})
         [] video_info'.status = "ValueError" -> Uncaught("ValueError")
         [] OTHER ->
              IF DOMAIN video_info'.info = {} THEN Exit(1, {})
              ELSE upc' = "credentials" /\ UNCHANGED <<printed, exitStatus>>
    /\ UNCHANGED <<uploads, creds, tokenAtEntry, response, result, calls, authFiles>>
    /\ UplFrame

\* what upload_video and then __main__ do once upload_video returns None
ReturnNone(messages) ==
    /\ result' = "None"
    /\ Exit(0, messages \cup {"Upload failed. Check errors above."})

\* upload_video calls get_credentials: up to its return, or to creds.refresh
GetCredentials ==
    /\ upc = "credentials"
    /\ tokenAtEntry' = fsToken
    /\ IF ~clientId \/ ~clientSecret
       THEN /\ Uncaught("ValueError")
            /\ UNCHANGED <<creds, result>>
       ELSE /\ creds' = fsToken
            /\ IF Valid(fsToken)
               THEN upc' = "media" /\ UNCHANGED <<printed, exitStatus, result>>
               ELSE IF ~fsToken.none /\ fsToken.expired /\ fsToken.refresh_token
               THEN upc' = "refresh" /\ UNCHANGED <<printed, exitStatus, result>>
               ELSE ReturnNone({"First time setup needed!",
                                "No valid credentials. Authentication required."})
    /\ UNCHANGED <<uploads, video_info, sidecarRead, response, calls, authFiles>>
    /\ UplFrame

\* A variant of RefreshCredentials that returns the refreshed credentials
\* without pickling them: the property of C10 must tell it from the code.
RefreshCredentials_NoDump ==
    /\ upc = "refresh"
    /\ \E ok \in BOOLEAN :
         /\ Call(Request("token_refresh", ok))
         /\ IF ok
            THEN /\ creds' = Refreshed(creds)
                 /\ upc' = "media"
                 /\ UNCHANGED <<printed, exitStatus>>
            ELSE /\ Uncaught("RefreshError")
                 /\ UNCHANGED creds
    /\ UNCHANGED <<uploads, video_info, sidecarRead, tokenAtEntry, response, result,
                   authFiles>>
    /\ UplFrame

\* creds.refresh(Request()), pickle.dump(creds, token), return creds
RefreshCredentials ==
    /\ upc = "refresh"
    /\ \E ok \in BOOLEAN :
         /\ Call(Request("token_refresh", ok))
         /\ IF ok
            THEN /\ creds' = Refreshed(creds)
                 /\ fsToken' = Refreshed(creds)
                 /\ upc' = "media"
                 /\ UNCHANGED <<printed, exitStatus, fsRefresh>>
            ELSE /\ Uncaught("RefreshError")
                 /\ UNCHANGED <<creds, authFiles>>
    /\ UNCHANGED <<uploads, video_info, sidecarRead, tokenAtEntry, response, result>>
    /\ UplFrame

\* the file a path names in the working directory
FileAt(path) == IF path = OutputVideoPath THEN fsVideo ELSE NoVideo

\* build(...), body, and MediaFileUpload(file_path, ...), which opens the file
OpenMedia ==
    /\ upc = "media"
    /\ IF FileAt(UploadArgs(video_info.info).file_path).kind = "none"
       THEN ReturnNone({"Upload failed: FileNotFoundError"})
       ELSE upc' = "insert" /\ UNCHANGED <<printed, exitStatus, result>>
    /\ UNCHANGED <<uploads, video_info, sidecarRead, creds, tokenAtEntry, response,
                   calls, authFiles>>
    /\ UplFrame

VideoIds == {"id1", "id2"}

\* A variant of InsertRequest that uploads as public at once: the property
\* of C9 must tell it from the code.
InsertRequest_Public(args, ok, id) ==
    [Request("videos.insert", ok) EXCEPT
        !.id = id,
        !.privacyStatus = "public",
        !.selfDeclaredMadeForKids = FALSE,
        !.snippet = [file_path |-> args.file_path, title |-> args.title,
                     description |-> args.description, tags |-> args.tags],
        !.media = FileAt(args.file_path),
        !.sidecar = sidecarRead.run]

\* the body of the insert request
InsertRequest(args, ok, id) ==
    [Request("videos.insert", ok) EXCEPT
        !.id = id,
        !.privacyStatus = "private",
        !.selfDeclaredMadeForKids = FALSE,
        !.snippet = [file_path |-> args.file_path, title |-> args.title,
                     description |-> args.description, tags |-> args.tags],
        !.media = FileAt(args.file_path),
        !.sidecar = sidecarRead.run]

\* request.execute() of youtube.videos().insert(...): the bytes of the file
\* are sent; any exception ends in the except branch
InsertVideo ==
    /\ upc = "insert"
    /\ \/ \E id \in VideoIds :
            /\ Call(InsertRequest(UploadArgs(video_info.info), TRUE, id))
            /\ response' = id
            /\ upc' = "update"
            /\ UNCHANGED <<printed, exitStatus, result>>
       \/ /\ Call(InsertRequest(UploadArgs(video_info.info), FALSE, ""))
          /\ ReturnNone({"Upload failed: HttpError"})
          /\ UNCHANGED response
    /\ UNCHANGED <<uploads, video_info, sidecarRead, creds, tokenAtEntry, authFiles>>
    /\ UplFrame

\* the id the update request names
UpdateId == response

\* A variant of UpdateVideo with the update call outside the try block: the
\* property of C7 must tell it from the code.
UpdateVideo_OutsideTry ==
    /\ upc = "update"
    /\ \E ok \in BOOLEAN :
         /\ Call([Request("videos.update", ok) EXCEPT
                     !.id = UpdateId, !.privacyStatus = "public"])
         /\ IF ok
            THEN /\ result' = response
                 /\ Exit(0, {"Video set to PUBLIC", "SUCCESS! Video is now live on YouTube"})
            ELSE /\ Uncaught("HttpError")
                 /\ UNCHANGED result
    /\ UNCHANGED <<uploads, video_info, sidecarRead, creds, tokenAtEntry, response,
                   authFiles>>
    /\ UplFrame

\* youtube.videos().update(...).execute(), "return response", and the end
\* of __main__
UpdateVideo ==
    /\ upc = "update"
    /\ \E ok \in BOOLEAN :
         /\ Call([Request("videos.update", ok) EXCEPT
                     !.id = UpdateId, !.privacyStatus = "public"])
         /\ IF ok
            THEN /\ result' = response
                 /\ Exit(0, {"Video set to PUBLIC", "SUCCESS! Video is now live on YouTube"})
            ELSE ReturnNone({"Upload failed: HttpError"})
    /\ UNCHANGED <<uploads, video_info, sidecarRead, creds, tokenAtEntry, response,
                   authFiles>>
    /\ UplFrame

(* --------------------------- specifications ---------------------------- *)

GeneratorStep(p, responses, picks, days) ==
    \/ StartRun(p)
    \/ FetchContent(p, responses)
    \/ RenderFrame(p)
    \/ EncodePrimary(p)
    \/ EncodeFallback(p)
    \/ OpenSidecar(p, picks, days)
    \/ CloseSidecar(p)

UploaderStep ==
    \/ StartUploader
    \/ CheckToken
    \/ ManualAuth
    \/ ExchangeCode
    \/ GetVideoInfo
    \/ GetCredentials
    \/ RefreshCredentials
    \/ OpenMedia
    \/ InsertVideo
    \/ UpdateVideo

\* The pipeline: generator runs, overlapping or not, and the uploader, on
\* one working directory.  The quote API fails in every way or answers
\* with one quote.
PipelineResponses == {JsonResponse(TRUE, QuoteYoda, TRUE, AuthorYoda)}

Next ==
    \/ \E p \in Generators : GeneratorStep(p, PipelineResponses, {1}, {1})
    \/ UploaderStep

Spec == Init /\ [][Next]_vars

\* The generator alone, one process, over every response and both days.
InitGenerator ==
    /\ ffmpeg \in BOOLEAN
    /\ clientId = TRUE
    /\ clientSecret = TRUE
    /\ fsToken = None
    /\ FreshDirectory
    /\ UploaderIdle

NextGenerator == GeneratorStep(1, Responses, 1..4, 1..Len(Dates))

SpecGenerator == InitGenerator /\ [][NextGenerator]_vars

\* The uploader alone, started in a directory where run_daily has not run
\* or has run once (the request failed or gave one of the quotes; the
\* title is a fixed or the dated template), with any token.pickle and any
\* environment.
UploaderResponses ==
    {r \in Responses :
        r.kind = "network_error" \/ (FetchSucceeds(r) /\ r.author = AuthorYoda)}

InitUploader ==
    /\ ffmpeg = TRUE
    /\ clientId \in BOOLEAN
    /\ clientSecret \in BOOLEAN
    /\ fsToken \in {None} \cup AllCredentials
    /\ FreshDirectory \/ AfterOneRun(UploaderResponses, {1, 2})
    /\ UploaderIdle

NextUploader == UploaderStep

SpecUploader == InitUploader /\ [][NextUploader]_vars

(* ------------------------------ properties ----------------------------- *)

\* create_video_from_image has returned in process p
EncodeReturned(p) == gen[p].pc \in {"metadata", "write", "done"}

\* C1: once create_video_from_image has returned, a file is present at
\* output_path, whatever the primary and the fallback ffmpeg runs did.
C1_FilePresentAfterEncode ==
    \A p \in Generators : EncodeReturned(p) => fsVideo.kind # "none"

\* the metadata a finished run returned, as upload_video's arguments
AsUploadArgs(metadata) ==
    [file_path |-> metadata.video_file, title |-> metadata.title,
     description |-> metadata.description, tags |-> metadata.tags]

\* get_video_info has read the whole sidecar that the run of process p wrote
ReadSidecarOf(p) ==
    /\ video_info.status # "unset"
    /\ gen[p].pc = "done"
    /\ sidecarRead.exists
    /\ sidecarRead.run = gen[p].run
    /\ sidecarRead.text = SidecarText(gen[p].metadata)

\* C2: what get_video_info and the split of TAGS give back from a sidecar
\* run_daily wrote is the title, description, file path and tag sequence
\* that were written.
C2_SidecarRoundTrip ==
    \A p \in Generators :
        ReadSidecarOf(p) =>
            /\ video_info.status = "ok"
            /\ UploadArgs(video_info.info) = AsUploadArgs(gen[p].metadata)

HasPrinted(message) == message \in printed
ReturnedNoCredentials == HasPrinted("No valid credentials. Authentication required.")

\* C3: an uploader run with missing client credentials, no usable stored
\* credentials, a failed code exchange or a missing sidecar never ends with
\* exit status 0.
C3_NonZeroExit ==
    ( /\ upc = "exited"
      /\ \/ ~clientId \/ ~clientSecret
         \/ ReturnedNoCredentials
         \/ HasPrinted("Authentication failed")
         \/ video_info.status = "None" )
    => exitStatus # 0

\* C4: when ffmpeg is absent or exits non-zero, the run takes the fallback
\* and completes: no exception leaves run_daily, and the finished run has
\* written the sidecar and returns the video path.
C4_FallbackCompletes ==
    \A p \in Generators :
        gen[p].primary \in {"absent", "nonzero"} =>
            /\ gen[p].pc # "crashed"
            /\ EncodeReturned(p) => gen[p].fallback # "none"
            /\ gen[p].pc = "done" =>
                 /\ fsSidecar.exists
                 /\ gen[p].metadata.video_file = OutputVideoPath

\* C5: every video the uploader has inserted carries bytes written by the
\* run whose sidecar the uploader read.
C5_SameRun ==
    \A i \in 1..Len(calls) :
        (calls[i].api = "videos.insert" /\ calls[i].ok)
            => calls[i].media.run = calls[i].sidecar

\* C6: get_daily_content never raises and never returns empty text: it
\* gives content + "\n\n- " + author when the response has both fields and
\* one of the three fallback quotes on every other outcome of the request.
C6_ContentFromQuoteOrFallback ==
    \A p \in Generators :
        gen[p].pc \notin {"idle", "fetch"} =>
            LET q == gen[p].quote_data
                c == gen[p].content
            IN  /\ c.type = "quote"
                /\ c.text # <<>>
                /\ IF q.kind = "json" /\ q.hasContent /\ q.hasAuthor
                   THEN c.text = q.content \o <<"\n", "\n", "-", " ">> \o q.author
                   ELSE c.text \in {FallbackQuote1, FallbackQuote2, FallbackQuote3}

C6_Witness ==
    \E p \in Generators :
        /\ gen[p].pc = "render"
        /\ gen[p].quote_data.kind = "json"
        /\ gen[p].quote_data.hasContent
        /\ ~gen[p].quote_data.hasAuthor
        /\ gen[p].content.text = FallbackQuote2

ApiCalls(api) == {i \in 1..Len(calls) : calls[i].api = api}
Exceptions ==
    {"EOFError", "ConnectionError", "ValueError", "RefreshError", "HttpError",
     "FileNotFoundError"}

\* C7: an exception of the insert or of the update call ends upload_video
\* with None and nothing uncaught; upload_video returns the insert response
\* only when the insert and the update both succeeded.
C7_UploadFailureIsNone ==
    /\ ( /\ upc = "exited"
         /\ \E i \in ApiCalls("videos.insert") \cup ApiCalls("videos.update") :
               ~calls[i].ok )
       => (result = "None" /\ exitStatus = 0 /\ printed \cap Exceptions = {})
    /\ result \notin {"unset", "None"}
       => /\ \E i \in ApiCalls("videos.insert") : calls[i].ok /\ calls[i].id = result
          /\ \E i \in ApiCalls("videos.update") : calls[i].ok

C7_Witness ==
    /\ upc = "exited"
    /\ result = "None"
    /\ exitStatus = 0
    /\ \E i \in ApiCalls("videos.insert") : calls[i].ok
    /\ \E i \in ApiCalls("videos.update") : ~calls[i].ok

\* C8: in a run with no token.pickle and the client id or secret unset,
\* no request is made and the sidecar is not read; the run ends with the
\* missing-credentials message and exit status 1.
C8_MissingCredentialsBeforeNetwork ==
    (upc # "idle" /\ fsToken.none /\ (~clientId \/ ~clientSecret)) =>
        /\ calls = <<>>
        /\ sidecarRead = NoSidecar
        /\ video_info = NoInfo
        /\ upc \in {"main", "exited"}
        /\ upc = "exited" =>
             /\ exitStatus = 1
             /\ HasPrinted("Missing YOUTUBE_CLIENT_ID or YOUTUBE_CLIENT_SECRET")

C8_Witness ==
    /\ upc = "exited"
    /\ fsToken.none
    /\ clientId
    /\ ~clientSecret
    /\ exitStatus = 1
    /\ HasPrinted("Missing YOUTUBE_CLIENT_ID or YOUTUBE_CLIENT_SECRET")

\* C9: every insert request is private and not made for kids; an update
\* request sets public and names the id an earlier successful insert
\* returned; when get_credentials returned None no request is issued by
\* upload_video.
C9_PrivateThenPublic ==
    /\ \A i \in ApiCalls("videos.insert") :
          calls[i].privacyStatus = "private" /\ ~calls[i].selfDeclaredMadeForKids
    /\ \A i \in ApiCalls("videos.update") :
          /\ calls[i].privacyStatus = "public"
          /\ \E j \in ApiCalls("videos.insert") :
                j < i /\ calls[j].ok /\ calls[j].id = calls[i].id
    /\ ReturnedNoCredentials =>
          \A i \in 1..Len(calls) : calls[i].api = "token_exchange"

C9_Witness ==
    /\ Len(calls) = 2
    /\ calls[1].api = "videos.insert" /\ calls[1].ok
    /\ calls[2].api = "videos.update" /\ calls[2].ok
    /\ calls[2].id = calls[1].id

\* get_credentials has returned in this uploader run
CredentialsReturned ==
    upc \in {"media", "insert", "update"} \/ (upc = "exited" /\ result # "unset")
Refreshable(c) == ~c.none /\ c.expired /\ c.refresh_token
TokenRefreshed == \E i \in ApiCalls("token_refresh") : calls[i].ok

\* C10: with the client id and secret set, get_credentials returns valid
\* stored credentials as they are and writes nothing; refreshes expired
\* ones that carry a refresh token and has them in token.pickle when it
\* returns them; returns None and writes nothing in every other case.
C10_CredentialsFrame ==
    (clientId /\ clientSecret /\ CredentialsReturned) =>
        IF Valid(tokenAtEntry)
        THEN /\ ~ReturnedNoCredentials
             /\ creds = tokenAtEntry
             /\ fsToken = tokenAtEntry
             /\ ApiCalls("token_refresh") = {}
        ELSE IF Refreshable(tokenAtEntry)
        THEN /\ ~ReturnedNoCredentials
             /\ TokenRefreshed
             /\ Valid(creds)
             /\ creds.refresh_token = tokenAtEntry.refresh_token
             /\ fsToken = creds
        ELSE /\ ReturnedNoCredentials
             /\ fsToken = tokenAtEntry
             /\ ApiCalls("token_refresh") = {}

C10_Witness ==
    /\ upc = "media"
    /\ Refreshable(tokenAtEntry)
    /\ fsToken = Credentials(TRUE, FALSE, TRUE)
    /\ fsToken # tokenAtEntry
=============================================================================
